---- MODULE Spec2Model ----
\* Registry filesystem (registryfs_v2.cpp): the blob-fetch state machine of
\* RegistryFSImpl_v2 / RegistryFileImpl_v2 over the three ObjectCache instances
\* m_meta_size, m_scope_token and m_url_info, run by cooperative tasks that
\* suspend at every HTTP call, at the 1 ms sleep of preadv and while waiting for
\* a cache entry under construction.
EXTENDS Integers, Sequences, FiniteSets, TLC

\* ---------------------------------------------------------------- bounds
\* A run is explored either wide (NTasks concurrent tasks, WideOps operations,
\* WideEnv environment events) or deep (one task, DeepOps operations, DeepEnv
\* environment events).  An environment event is a failed or timed-out HTTP
\* call, a revoked token, an elapsed TTL or a change of the accelerator.
NTasks == 2
WideOps == 2
WideEnv == 1
DeepOps == 2
DeepEnv == 2
NFiles == 2        \* live RegistryFileImpl_v2 instances
MaxTokens == 2     \* tokens the token endpoint issues in one run
ReqCap == 2        \* token requests are counted up to this many
MaxScopeLen == 3    \* characters of a challenge's scope
WordBits == 3      \* width of size_t / off_t in the model (64 in the build)

Tasks == 1..NTasks
Files == 1..NFiles
Word == 2 ^ WordBits

\* ------------------------------------------------------ program constants
kRetry == 3                     \* int retry = 3 (preadv and get_length)
ST_OK == 200
ST_PARTIAL == 206
ST_UNAUTH == 401
ST_FORBIDDEN == 403
ST_NONE == -1                   \* op.status_code with no response received

\* Strings are sequences of atoms, so that concatenation is \o and a prefix
\* written twice is visible.
kBearerAuthPrefix == <<"Bearer ">>
EmptyStr == <<>>

\* ------------------------------------------------------------ environment
\* The registry serves three blobs.  u1 and u2 sit behind the bearer challenge
\* of one scope; u3 is public.  u2 is the empty blob.
Urls == {"u1", "u2", "u3"}
Scopes == {"s1"}
Protected(u) == u \in {"u1", "u2"}
ScopeOf(u) == "s1"
BlobSize(u) == IF u = "u2" THEN 0 ELSE 2
Location(u) == <<"cdn/", u>>
AccelAddrs == {EmptyStr, <<"http://p2p">>}
Tokens == 1..MaxTokens


VARIABLES
    th,             \* per task: the operation it runs and where it is suspended
    file,           \* RegistryFileImpl_v2 instances: url, m_filesize
    m_url_info,     \* ObjectCache<estring, UrlInfo *>
    m_scope_token,  \* ObjectCache<estring, estring *>
    m_meta_size,    \* ObjectCache<estring, size_t *>
    m_accelerate,   \* accelerator prefix
    srv,            \* the registry, its token endpoint and the network
    crashed,        \* the process died on a null dereference
    hist            \* counters of what happened in the run

vars == <<th, file, m_url_info, m_scope_token, m_meta_size, m_accelerate, srv,
          crashed, hist>>

\* --------------------------------------------------------------- UrlInfo
NoInfo == [mode |-> "None", info |-> EmptyStr]
RedirectInfo(location) == [mode |-> "Redirect", info |-> location]
SelfInfo(bearer) == [mode |-> "Self", info |-> bearer]

\* -------------------------------------------- ObjectCache (spec section 4.1)
\* An entry is absent, under construction by one task, or ready.  The
\* constructor holds the first reference.  A poisoned entry stays until its last
\* reference is released; acquirers wait for it to go and then construct anew.
Absent(nothing) == [st |-> "absent", ref |-> 0, poisoned |-> FALSE, val |-> nothing]
Building(nothing) == [st |-> "building", ref |-> 1, poisoned |-> FALSE, val |-> nothing]
CacheHit(e) == e.st = "ready" /\ ~e.poisoned
CacheMiss(e) == e.st = "absent"
CacheBusy(e) == ~CacheHit(e) /\ ~CacheMiss(e)
Acquired(e) == [e EXCEPT !.ref = @ + 1]
Installed(e, v) == [e EXCEPT !.st = "ready", !.val = v]
Released(e, poison, nothing) ==
    LET p == e.poisoned \/ poison
        r == e.ref - 1
    IN  IF r = 0 /\ p THEN Absent(nothing)
        ELSE [e EXCEPT !.ref = r, !.poisoned = p]

\* ------------------------------------------------------------------ state
NoReq == [target |-> EmptyStr, auth |-> EmptyStr, from |-> 0, to |-> 0]
FreeFile == [st |-> "free", url |-> "", size |-> 0]
IdleTask ==
    [op |-> "none", pc |-> "idle", f |-> 0, url |-> "", stage |-> "none", phase |-> "none",
     retry |-> 0, off |-> 0, cnt |-> 0, count |-> 0,
     scope |-> "", code |-> 0, status |-> ST_NONE, attempts |-> 0,
     req |-> NoReq, res |-> "none", err |-> "none", val |-> 0, scen |-> 0, late |-> FALSE, rstatus |-> ST_NONE, authfails |-> 0]

\* The part of the state the program's own code writes.
St == [th |-> th, file |-> file, ui |-> m_url_info, tok |-> m_scope_token,
       meta |-> m_meta_size, hist |-> hist]
Commit(S) ==
    /\ th' = S.th
    /\ file' = S.file
    /\ m_url_info' = S.ui
    /\ m_scope_token' = S.tok
    /\ m_meta_size' = S.meta
    /\ hist' = S.hist

UrlOf(S, t) == S.th[t].url
Min(a, b) == IF a < b THEN a ELSE b

\* ------------------------------------------------- get_data: the request
ActualUrl(url, info) == IF info.mode = "Redirect" THEN info.info ELSE <<url>>
\* Mutant of AccelerateUrl: the accelerator address is not used.
AccelerateUrl_Ignored(acc, actual) == actual
AccelerateUrl(acc, actual) == IF Len(acc) > 0 THEN acc \o <<"/">> \o actual ELSE actual
\* Mutant of TokenHeader: the mode is not looked at.
TokenHeader_AnyMode(info) ==
    IF info.info # EmptyStr THEN <<"Bearer ">> \o info.info ELSE EmptyStr
TokenHeader(info) ==
    IF info.mode = "Self" /\ info.info # EmptyStr
    THEN <<"Bearer ">> \o info.info
    ELSE EmptyStr
RangeEnd(offset, count) == (offset + count + Word - 1) % Word
StatusOk(status) == status = ST_OK \/ status = ST_PARTIAL

\* get_data from "op.req.reset" to "m_client->call(&op)": the ranged GET leaves.
SendRanged(S, t) ==
    LET me == S.th[t]
        u == UrlOf(S, t)
        info == S.ui[u].val
        offset == IF me.phase = "len" THEN 0 ELSE me.off
        count == IF me.phase = "len" THEN 1 ELSE me.count
    IN  [S EXCEPT !.th[t].pc = "ranged",
                  !.th[t].req = [target |-> AccelerateUrl(m_accelerate, ActualUrl(u, info)),
                                 auth |-> TokenHeader(info),
                                 from |-> offset,
                                 to |-> RangeEnd(offset, count)]]

\* Mutant of AcquireUrlInfo: a task that finds the entry busy starts a
\* constructor of its own instead of waiting.
AcquireUrlInfo_NoWait(S, t) ==
    LET u == UrlOf(S, t)
        e == S.ui[u]
    IN  IF CacheHit(e)
        THEN SendRanged([S EXCEPT !.ui[u] = Acquired(e)], t)
        ELSE [S EXCEPT !.ui[u] = Building(NoInfo),
                       !.th[t].pc = "probe",
                       !.th[t].scope = "",
                       !.th[t].req = [NoReq EXCEPT !.target = <<u>>]]

\* m_url_info.acquire(url, ctor): a hit goes on to the ranged GET, a miss makes
\* this task the constructor (get_actual_url sends its probe), otherwise wait.
AcquireUrlInfo(S, t) ==
    LET u == UrlOf(S, t)
        e == S.ui[u]
    IN  CASE CacheHit(e) -> SendRanged([S EXCEPT !.ui[u] = Acquired(e)], t)
          [] CacheMiss(e) -> [S EXCEPT !.ui[u] = Building(NoInfo),
                                       !.th[t].pc = "probe",
                                       !.th[t].scope = "",
                                       !.th[t].req = [NoReq EXCEPT !.target = <<u>>]]
          [] OTHER -> [S EXCEPT !.th[t].pc = "wait_url"]

\* A call of get_data: a fresh HTTP_OP (status_code unset), ret = 0.
EnterGetData(S, t) ==
    AcquireUrlInfo([S EXCEPT !.th[t].attempts = @ + 1,
                             !.th[t].status = ST_NONE,
                             !.th[t].code = 0], t)

\* ------------------------------------------------ returning to the caller
OpDone(S, t, res, err, val) ==
    [S EXCEPT !.th[t] = [@ EXCEPT !.pc = "done", !.req = NoReq,
                                  !.res = res, !.err = err, !.val = val]]

\* Mutant of RetryLeft: the budget is never found empty.
RetryLeft_Always(retry) == TRUE
RetryLeft(retry) == retry # 0
ClampCount(count, offset, filesize) ==
    IF (count + offset) % Word > filesize
    THEN (filesize - offset + Word) % Word
    ELSE count

\* get_length: Timeout tmo(timeout); int retry = 3; again: get_data(m_url, 0, 1)
LengthStart(S, t) ==
    EnterGetData([S EXCEPT !.th[t].phase = "len", !.th[t].retry = kRetry,
                           !.th[t].attempts = 0], t)

\* preadv after the size is known: int retry = 3; Timeout tmo(m_timeout); again:
ReadStart(S, t) ==
    LET me == S.th[t]
    IN  EnterGetData([S EXCEPT !.th[t].phase = "read", !.th[t].retry = kRetry,
                               !.th[t].attempts = 0,
                               !.th[t].count = ClampCount(me.cnt, me.off, S.file[me.f].size)], t)

\* stat's constructor returns new size_t(st_size); stat fills buf and releases.
StatCtorDone(S, t, size) ==
    LET me == S.th[t]
        u == UrlOf(S, t)
    IN  OpDone([S EXCEPT !.meta[u] = Released(Installed(@, size), FALSE, 0),
                         !.file[me.f] = FreeFile], t, "ok", S.th[t].err, size)

\* get_length failed, so fstat returns -1: open deletes the file, stat's
\* constructor returns nullptr.
LengthFail(S, t, err) ==
    LET me == S.th[t]
        u == UrlOf(S, t)
    IN  CASE me.op = "open" -> OpDone([S EXCEPT !.file[me.f] = FreeFile], t, "fail", err, 0)
          [] me.op = "stat" -> OpDone([S EXCEPT !.file[me.f] = FreeFile,
                                                !.meta[u] = Absent(0)], t, "fail", err, 0)
          [] OTHER -> OpDone(S, t, "fail", err, 0)

\* get_length returned the size: fstat stores m_filesize.
LengthOk(S, t, size) ==
    LET me == S.th[t]
        S1 == [S EXCEPT !.file[me.f].size = size]
    IN  CASE me.op = "open" -> OpDone([S1 EXCEPT !.file[me.f].st = "open"], t, "ok", me.err, me.f)
          [] me.op = "fstat" -> OpDone(S1, t, "ok", me.err, size)
          [] me.op = "preadv" -> ReadStart(S1, t)
          [] OTHER ->
                IF me.stage = "open" /\ size = 0
                THEN LengthStart([S1 EXCEPT !.th[t].stage = "fstat"], t)
                ELSE StatCtorDone(S1, t, size)

\* Mutant of GetDataFailed: get_length does not look for 401/403.
GetDataFailed_NoEperm(S, t, late) ==
    LET me == S.th[t]
        again == [S EXCEPT !.th[t].retry = @ - 1]
    IN  IF me.phase = "len"
        THEN IF late THEN LengthFail(S, t, "ETIMEDOUT")
             ELSE IF RetryLeft(me.retry) THEN EnterGetData(again, t)
                  ELSE LengthFail(S, t, "ENOENT")
        ELSE IF late THEN OpDone(S, t, "fail", "ETIMEDOUT", -1)
             ELSE IF RetryLeft(me.retry) THEN [again EXCEPT !.th[t].pc = "sleep"]
                  ELSE OpDone(S, t, "fail", "ENOENT", -1)

\* get_data came back without 200/206; late: tmo.expire() < photon::now.
GetDataFailed(S, t, late) ==
    LET me == S.th[t]
        again == [S EXCEPT !.th[t].retry = @ - 1]
    IN  IF me.phase = "len"
        THEN IF late THEN LengthFail(S, t, "ETIMEDOUT")
             ELSE IF me.status = ST_UNAUTH \/ me.status = ST_FORBIDDEN
                  THEN IF RetryLeft(me.retry) THEN EnterGetData(again, t)
                       ELSE LengthFail(S, t, "EPERM")
                  ELSE IF RetryLeft(me.retry) THEN EnterGetData(again, t)
                       ELSE LengthFail(S, t, "ENOENT")
        ELSE IF late THEN OpDone(S, t, "fail", "ETIMEDOUT", -1)
             ELSE IF RetryLeft(me.retry) THEN [again EXCEPT !.th[t].pc = "sleep"]
                  ELSE OpDone(S, t, "fail", "ENOENT", -1)

\* --------------------------------------------- get_actual_url (the resolver)
\* The constructor of m_url_info returned nullptr: nothing is cached and
\* get_data returns ret with op.status_code untouched.
ResolverFailed(S, t, late) ==
    GetDataFailed([S EXCEPT !.ui[UrlOf(S, t)] = Absent(NoInfo)], t, late)

\* The constructor returned a UrlInfo: it is installed and get_data goes on.
ResolverDone(S, t, info) ==
    SendRanged([S EXCEPT !.ui[UrlOf(S, t)] = Installed(@, info)], t)

\* HTTP_OP op(m_client, Verb::GET, url) with "Bearer " + *token, then op.call().
ReissueHeader(token) == <<"Bearer ">> \o token
SendReissue(S, t, token) ==
    [S EXCEPT !.th[t].pc = "reissue",
              !.th[t].req = [NoReq EXCEPT !.target = <<UrlOf(S, t)>>,
                                          !.auth = ReissueHeader(token)]]

\* Mutant of AcquireToken: a task that finds the token under construction
\* sends a token request of its own.
AcquireToken_NoWait(S, t) ==
    LET s == S.th[t].scope
        e == S.tok[s]
    IN  IF CacheHit(e)
        THEN SendReissue([S EXCEPT !.tok[s] = Acquired(e)], t, e.val)
        ELSE [S EXCEPT !.tok[s] = Building(EmptyStr),
                       !.th[t].pc = "auth",
                       !.th[t].req = [NoReq EXCEPT !.target = <<"auth/", s>>],
                       !.hist.treq = Min(@ + 1, ReqCap)]

\* m_scope_token.acquire(scope, ctor): the constructor asks the callback for
\* the credentials and sends the token request (authenticate).
AcquireToken(S, t) ==
    LET s == S.th[t].scope
        e == S.tok[s]
    IN  CASE CacheHit(e) -> SendReissue([S EXCEPT !.tok[s] = Acquired(e)], t, e.val)
          [] CacheMiss(e) -> [S EXCEPT !.tok[s] = Building(EmptyStr),
                                       !.th[t].pc = "auth",
                                       !.th[t].req = [NoReq EXCEPT !.target = <<"auth/", s>>],
                                       !.hist.treq = Min(@ + 1, ReqCap)]
          [] OTHER -> [S EXCEPT !.th[t].pc = "wait_tok"]

\* get_scope_auth saw the probe's status.  Only 401/403 carry a challenge.
Challenged(status) == status = ST_UNAUTH \/ status = ST_FORBIDDEN

\* authenticate returned: the token is installed, or code = 401 and nullptr.
AuthDone(S, t, ok, token, late) ==
    LET s == S.th[t].scope
    IN  IF ok
        THEN SendReissue([S EXCEPT !.tok[s] = Installed(@, token)], t, token)
        ELSE ResolverFailed([S EXCEPT !.tok[s] = Absent(EmptyStr),
                                      !.th[t].code = ST_UNAUTH], t, late)

\* Which statuses of the re-issue release the scope token poisoned.
IsRedirect(status) == 300 <= status /\ status < 400
ReissuePoisons(status) == ~IsRedirect(status) /\ status # ST_OK
SelfBearer(hasToken, token) ==
    IF hasToken /\ token # EmptyStr THEN kBearerAuthPrefix \o token ELSE EmptyStr

\* Mutant of ReleaseToken: the failure path returns without releasing.
ReleaseToken_LeakOnFailure(S, s, status) ==
    IF s # "" /\ ~ReissuePoisons(status)
    THEN [S EXCEPT !.tok[s] = Released(@, FALSE, EmptyStr)]
    ELSE S

\* "if (!scope.empty()) m_scope_token.release(scope[, true])" on each of the
\* three ways out of get_actual_url.
ReleaseToken(S, s, status) ==
    IF s # ""
    THEN [S EXCEPT !.tok[s] = Released(@, ReissuePoisons(status), EmptyStr)]
    ELSE S

\* get_actual_url after the re-issue's op.call().
ReissueDone(S, t, status, late) ==
    LET s == S.th[t].scope
        hasScope == s # ""
        token == IF hasScope THEN S.tok[s].val ELSE EmptyStr
        S1 == ReleaseToken(S, s, status)
    IN  IF IsRedirect(status)
        THEN ResolverDone(S1, t, RedirectInfo(Location(UrlOf(S, t))))
        ELSE IF status = ST_OK
             THEN ResolverDone(S1, t, SelfInfo(SelfBearer(hasScope, token)))
             ELSE ResolverFailed(S1, t, late)

\* Mutant of ReleasePoisoned: every release is poisoned.
ReleasePoisoned_Always(status) == TRUE
\* Mutant of ReleasePoisoned: every release is clean.
ReleasePoisoned_Never(status) == FALSE

\* get_data after m_client->call(&op): release clean on 200/206, else poisoned.
ReleasePoisoned(status) == ~StatusOk(status)
RangedDone(S, t, status, body, late) ==
    LET me == S.th[t]
        u == UrlOf(S, t)
        S1 == [S EXCEPT !.th[t].status = status,
                        !.th[t].req = NoReq,
                        !.ui[u] = Released(@, ReleasePoisoned(status), NoInfo)]
    IN  IF StatusOk(status)
        THEN IF me.phase = "len"
             THEN LengthOk(S1, t, BlobSize(u))
             ELSE OpDone(S1, t, "ok", me.err, Min(body, me.cnt))
        ELSE GetDataFailed(S1, t, late)

\* ------------------------------------------------- the registry (environment)
\* srv.valid: the tokens the registry accepts now; srv.issued: how many the
\* token endpoint has issued.  A request is authorized when it carries exactly
\* "Bearer <valid token>".
Authorized(auth) == \E k \in srv.valid : auth = <<"Bearer ", ToString(k)>>
ProbeStatuses(u) == IF Protected(u) THEN {ST_UNAUTH} ELSE {ST_PARTIAL}
AuthStatuses == IF srv.issued >= MaxTokens THEN {ST_UNAUTH} ELSE {ST_OK}
ReissueStatuses(u, req) ==
    IF ~Protected(u) THEN {ST_OK}
    ELSE IF Authorized(req.auth) THEN {ST_OK, 307}
    ELSE {ST_UNAUTH}
\* A range that starts inside the blob is served with 206; any other is answered
\* 416 or, by servers that ignore it, 200 with the whole blob.
Satisfiable(u, req) == req.from <= req.to /\ req.from < BlobSize(u)
ToOrigin(u, req) == req.target = <<u>> \/ req.target = <<"http://p2p", "/", u>>
RangedStatuses(u, req) ==
    IF ToOrigin(u, req) /\ Protected(u) /\ ~Authorized(req.auth)
    THEN {ST_UNAUTH}
    ELSE IF Satisfiable(u, req) THEN {ST_PARTIAL} ELSE {416, ST_OK}
BodyLen(u, req, status) ==
    IF status = ST_PARTIAL THEN Min(req.to, BlobSize(u) - 1) - req.from + 1
    ELSE BlobSize(u)

\* What one HTTP call can come back with: the registry's answer, or an event of
\* the environment: no connection (ST_NONE), a server error (500), the token
\* endpoint rejecting the credentials, or the call's deadline passing (late:
\* tmo.expire() < photon::now when the caller looks at the clock).
Outcome(status, late, event) == [status |-> status, late |-> late, event |-> event]
Answers(statuses) == {Outcome(x, FALSE, FALSE) : x \in statuses}
Failures == {Outcome(ST_NONE, FALSE, TRUE), Outcome(500, FALSE, TRUE), Outcome(ST_NONE, TRUE, TRUE)}
Outcomes(statuses) == Answers(statuses) \cup Failures
AuthOutcomes == Outcomes(AuthStatuses) \cup {Outcome(ST_UNAUTH, FALSE, TRUE)}
\* Where the registry would answer the re-issue 200 it may, as an event, answer
\* 206 (partial content).
ReissueOutcomes(statuses) ==
    Outcomes(statuses) \cup {Outcome(ST_PARTIAL, FALSE, TRUE) : x \in statuses \cap {ST_OK}}
RangedOutcomes(statuses) ==
    Outcomes(statuses) \cup {Outcome(x, TRUE, TRUE) : x \in {y \in statuses : ~StatusOk(y)}}
\* The state an outcome is processed in: an event uses up one of the run's.
Allowed(o) == o.event => hist.env > 0
After(o) == IF o.event THEN [St EXCEPT !.hist.env = @ - 1] ELSE St
\* The deadline of task t's operation has passed once it was seen passed.
Late(t, o) == th[t].late \/ o.late
Got(t, o) == [After(o) EXCEPT !.th[t].late = Late(t, o)]

\* ------------------------------------------------------------------ Init
Init ==
    /\ th = [t \in Tasks |-> IdleTask]
    /\ file = [f \in Files |-> FreeFile]
    /\ m_url_info = [u \in Urls |-> Absent(NoInfo)]
    /\ m_scope_token = [s \in Scopes |-> Absent(EmptyStr)]
    /\ m_meta_size = [u \in Urls |-> Absent(0)]
    /\ m_accelerate = EmptyStr
    /\ srv = [valid |-> {}, issued |-> 0]
    /\ crashed = FALSE
    /\ hist \in {[treq |-> 0, tasks |-> NTasks, ops |-> WideOps, env |-> WideEnv, env0 |-> WideEnv],
                 [treq |-> 0, tasks |-> 1, ops |-> DeepOps, env |-> DeepEnv, env0 |-> DeepEnv]}

\* --------------------------------------------------------------- operations
FreeFiles == {f \in Files : file[f].st = "free"}
NewFile == CHOOSE f \in FreeFiles : \A g \in FreeFiles : f <= g
\* A new operation goes to the lowest idle task (tasks are interchangeable).
Running == ~crashed /\ \A t \in Tasks : th[t].pc # "done"
CanStart(t) ==
    /\ Running
    /\ t <= hist.tasks
    /\ th[t].pc = "idle"
    /\ \A t2 \in Tasks : t2 < t => th[t2].pc # "idle"
    /\ hist.ops > 0
Begin(t, op, f, u) ==
    [St EXCEPT !.th[t] = [IdleTask EXCEPT !.op = op, !.f = f, !.url = u],
               !.hist.ops = @ - 1]
\* preadv's inputs <<offset, iovec total>>: inside the blob, reaching past its
\* end, starting at its end, starting past its end.
Reads == {<<0, 1>>, <<0, 3>>, <<2, 3>>, <<3, 1>>}

\* RegistryFSImpl_v2::open: new RegistryFileImpl_v2, then file->fstat.
Open(t, u) ==
    /\ CanStart(t)
    /\ FreeFiles # {}
    /\ Commit(LengthStart([Begin(t, "open", NewFile, u) EXCEPT
                              !.file[NewFile] = [st |-> "opening", url |-> u, size |-> 0]], t))
    /\ UNCHANGED <<m_accelerate, srv, crashed>>

\* RegistryFileImpl_v2::fstat on an open file.
Fstat(t, f) ==
    /\ CanStart(t)
    /\ file[f].st = "open"
    /\ LET S0 == Begin(t, "fstat", f, file[f].url)
       IN  Commit(IF file[f].size = 0 THEN LengthStart(S0, t)
                  ELSE OpDone(S0, t, "ok", "none", file[f].size))
    /\ UNCHANGED <<m_accelerate, srv, crashed>>

\* RegistryFileImpl_v2::preadv on an open file; cnt is the iovec's total.
Preadv(t, f, offset, cnt) ==
    /\ CanStart(t)
    /\ file[f].st = "open"
    /\ LET S0 == [Begin(t, "preadv", f, file[f].url) EXCEPT
                     !.th[t].off = offset, !.th[t].cnt = cnt]
       IN  Commit(IF file[f].size = 0 THEN LengthStart(S0, t) ELSE ReadStart(S0, t))
    /\ UNCHANGED <<m_accelerate, srv, crashed>>

\* m_meta_size.acquire(path, ctor) in stat: a hit fills buf and releases at
\* once; a miss runs the constructor, which opens the file.
AcquireMeta(S, t) ==
    LET u == UrlOf(S, t)
        e == S.meta[u]
    IN  CASE CacheHit(e) -> OpDone(S, t, "ok", "none", e.val)
          [] CacheMiss(e) ->
                LengthStart([S EXCEPT !.meta[u] = Building(0),
                                      !.th[t].f = NewFile,
                                      !.th[t].stage = "open",
                                      !.file[NewFile] = [st |-> "opening", url |-> u, size |-> 0]], t)
          [] OTHER -> [S EXCEPT !.th[t].pc = "wait_meta"]
MetaReady(u) == CacheMiss(m_meta_size[u]) => FreeFiles # {}

Stat(t, u) ==
    /\ CanStart(t)
    /\ MetaReady(u)
    /\ Commit(AcquireMeta(Begin(t, "stat", 0, u), t))
    /\ UNCHANGED <<m_accelerate, srv, crashed>>

SetAccelerateAddress(addr) ==
    /\ Running
    /\ hist.env > 0
    /\ addr # m_accelerate
    /\ m_accelerate' = addr
    /\ hist' = [hist EXCEPT !.env = @ - 1]
    /\ UNCHANGED <<th, file, m_url_info, m_scope_token, m_meta_size, srv, crashed>>

\* ------------------------------------------------------- responses arrive
\* The probe of get_scope_auth (GET url, Range 0-0) came back.  Without a
\* challenge scope stays empty and token stays nullptr, and get_actual_url
\* still evaluates *token for the Authorization header: the process dies or
\* goes on with whatever it read there.
ProbeResp(t) ==
    /\ Running
    /\ th[t].pc = "probe"
    /\ \E o \in Outcomes(ProbeStatuses(th[t].url)) :
         /\ Allowed(o)
         /\ IF o.status = ST_NONE
            THEN /\ Commit(ResolverFailed(Got(t, o), t, Late(t, o)))
                 /\ UNCHANGED crashed
            ELSE IF Challenged(o.status)
            THEN /\ Commit(AcquireToken([Got(t, o) EXCEPT !.th[t].scope = ScopeOf(th[t].url)], t))
                 /\ UNCHANGED crashed
            ELSE \/ /\ crashed' = TRUE
                    /\ Commit(Got(t, o))
                 \/ /\ Commit(SendReissue(Got(t, o), t, <<"?">>))
                    /\ UNCHANGED crashed
    /\ UNCHANGED <<m_accelerate, srv>>

\* The token endpoint answered authenticate's GET.
AuthResp(t) ==
    /\ Running
    /\ th[t].pc = "auth"
    /\ \E o \in AuthOutcomes :
         /\ Allowed(o)
         /\ IF o.status = ST_OK
            THEN /\ srv' = [srv EXCEPT !.issued = @ + 1, !.valid = @ \cup {srv.issued + 1}]
                 /\ Commit(AuthDone(Got(t, o), t, TRUE, <<ToString(srv.issued + 1)>>, Late(t, o)))
            ELSE /\ srv' = srv
                 /\ Commit(AuthDone([Got(t, o) EXCEPT !.th[t].authfails = @ + 1], t,
                                     FALSE, EmptyStr, Late(t, o)))
    /\ UNCHANGED <<m_accelerate, crashed>>

\* The re-issue of get_actual_url came back.
ReissueResp(t) ==
    /\ Running
    /\ th[t].pc = "reissue"
    /\ \E o \in ReissueOutcomes(ReissueStatuses(th[t].url, th[t].req)) :
         /\ Allowed(o)
         /\ Commit(ReissueDone([Got(t, o) EXCEPT !.th[t].rstatus = o.status], t,
                                o.status, Late(t, o)))
    /\ UNCHANGED <<m_accelerate, srv, crashed>>

\* The first ranged GET of a preadv was built from a cached Self{Bearer T}, T
\* is the cached token of the scope, the registry no longer accepts T and will
\* still issue a token.
StaleBearer(t) ==
    LET e == m_url_info[th[t].url]
        k == m_scope_token[ScopeOf(th[t].url)]
    IN  /\ th[t].op = "preadv" /\ th[t].phase = "read" /\ th[t].attempts = 1
        /\ k.st = "ready" /\ k.val # EmptyStr
        /\ e.val = SelfInfo(kBearerAuthPrefix \o k.val)
        /\ ~\E n \in srv.valid : k.val = <<ToString(n)>>
        /\ srv.issued < MaxTokens
\* scen remembers that the read started from StaleBearer, and how many
\* events of the environment were left at that moment.
Noted(S, t, o) ==
    IF StaleBearer(t) /\ o = Outcome(ST_UNAUTH, FALSE, FALSE)
    THEN [S EXCEPT !.th[t].scen = hist.env + 1]
    ELSE S

\* The ranged GET of get_data came back.
RangedResp(t) ==
    /\ Running
    /\ th[t].pc = "ranged"
    /\ \E o \in RangedOutcomes(RangedStatuses(th[t].url, th[t].req)) :
         /\ Allowed(o)
         /\ Commit(RangedDone(Noted(Got(t, o), t, o), t, o.status,
                               BodyLen(th[t].url, th[t].req, o.status), Late(t, o)))
    /\ UNCHANGED <<m_accelerate, srv, crashed>>

\* The operation's caller has its result; the task is free again.
Return(t) ==
    /\ th[t].pc = "done"
    /\ th' = [th EXCEPT ![t] = IdleTask]
    /\ UNCHANGED <<file, m_url_info, m_scope_token, m_meta_size, m_accelerate, srv, crashed, hist>>

\* photon::thread_usleep(1000) of preadv is over: goto again.
WakeSleep(t) ==
    /\ Running
    /\ th[t].pc = "sleep"
    /\ Commit(EnterGetData(St, t))
    /\ UNCHANGED <<m_accelerate, srv, crashed>>

\* A task waiting inside acquire goes on once the entry is no longer busy.
WakeUrl(t) ==
    /\ Running
    /\ th[t].pc = "wait_url"
    /\ ~CacheBusy(m_url_info[th[t].url])
    /\ Commit(AcquireUrlInfo(St, t))
    /\ UNCHANGED <<m_accelerate, srv, crashed>>

WakeToken(t) ==
    /\ Running
    /\ th[t].pc = "wait_tok"
    /\ ~CacheBusy(m_scope_token[th[t].scope])
    /\ Commit(AcquireToken(St, t))
    /\ UNCHANGED <<m_accelerate, srv, crashed>>

WakeMeta(t) ==
    /\ Running
    /\ th[t].pc = "wait_meta"
    /\ ~CacheBusy(m_meta_size[th[t].url])
    /\ MetaReady(th[t].url)
    /\ Commit(AcquireMeta(St, t))
    /\ UNCHANGED <<m_accelerate, srv, crashed>>

\* ------------------------------------------ the challenge of get_scope_auth
\* A header line is a sequence of characters; "Bearer " and the three key
\* names stand for their characters (none of them is ',', '=' or '"').
Realms == {<<"r">>, <<"r", "?", "x", "=", "1">>}
Services == {<<"s">>, <<"s", ".", "io">>}
ScopeChars == {"a", ":", ","}
\* Scopes like "repository:foo:pull,push": a comma only between other characters.
ScopeStrings ==
    {x \in UNION {[1..n -> ScopeChars] : n \in 1..MaxScopeLen} :
        x[1] # "," /\ x[Len(x)] # ","}
Challenges == [realm : Realms, service : Services, scope : ScopeStrings]
\* The registry's header: Bearer realm="..",service="..",scope="..".
FormatChallenge(c) ==
    <<"Bearer ", "realm", "=", "\"">> \o c.realm \o <<"\"", ",">>
    \o <<"service", "=", "\"">> \o c.service \o <<"\"", ",">>
    \o <<"scope", "=", "\"">> \o c.scope \o <<"\"">>

\* estring::split(','): the pieces between commas, empty pieces left out.
RECURSIVE SplitAcc(_, _, _, _)
SplitAcc(s, sep, cur, out) ==
    IF s = <<>> THEN (IF cur = <<>> THEN out ELSE Append(out, cur))
    ELSE IF Head(s) = sep
         THEN SplitAcc(Tail(s), sep, <<>>, IF cur = <<>> THEN out ELSE Append(out, cur))
         ELSE SplitAcc(Tail(s), sep, Append(cur, Head(s)), out)
Split(s, sep) == SplitAcc(s, sep, <<>>, <<>>)
\* token.find_first_of('='): the first position of ch, 0 for npos.
FindFirstOf(s, ch) ==
    LET I == {i \in 1..Len(s) : s[i] = ch}
    IN  IF I = {} THEN 0 ELSE CHOOSE i \in I : \A j \in I : i <= j
\* estring_view::trim(ch): ch taken off both ends.
RECURSIVE Trim(_, _)
Trim(s, ch) ==
    IF s # <<>> /\ Head(s) = ch THEN Trim(Tail(s), ch)
    ELSE IF s # <<>> /\ s[Len(s)] = ch THEN Trim(SubSeq(s, 1, Len(s) - 1), ch)
    ELSE s
\* token.substr(0, pos) and token.substr(pos + 1).trim('"'); with npos both
\* are taken from the whole token (npos + 1 = 0).
KeyOf(token) ==
    LET pos == FindFirstOf(token, "=")
    IN  IF pos = 0 THEN token ELSE SubSeq(token, 1, pos - 1)
ValOf(token) ==
    LET pos == FindFirstOf(token, "=")
    IN  Trim(SubSeq(token, pos + 1, Len(token)), "\"")
\* ret.emplace(key, val) for every token: the first token of a key stays.
str_to_kvmap(src) ==
    LET tokens == Split(src, ",")
        keys == {KeyOf(tokens[i]) : i \in DOMAIN tokens}
        first(k) == CHOOSE i \in DOMAIN tokens :
                        /\ KeyOf(tokens[i]) = k
                        /\ \A j \in DOMAIN tokens : KeyOf(tokens[j]) = k => i <= j
    IN  [k \in keys |-> ValOf(tokens[first(k)])]
\* get_scope_auth from the www-authenticate line on: -1 unless the line starts
\* with "Bearer " and has realm, service and scope; else *scope and *authurl.
ChallengeFailed == [ret |-> -1, scope |-> EmptyStr, authurl |-> EmptyStr]
ParseChallenge(challengeLine) ==
    IF challengeLine = <<>> \/ <<Head(challengeLine)>> # kBearerAuthPrefix
    THEN ChallengeFailed
    ELSE LET kv == str_to_kvmap(Tail(challengeLine))
         IN  IF {<<"realm">>, <<"service">>, <<"scope">>} \subseteq DOMAIN kv
             THEN [ret |-> 0,
                   scope |-> kv[<<"scope">>],
                   authurl |-> kv[<<"realm">>] \o <<"?service=">> \o kv[<<"service">>]
                               \o <<"&scope=">> \o kv[<<"scope">>]]
             ELSE ChallengeFailed

\* The parser on its own: the filesystem is at rest and hist holds a
\* challenge, the header line the registry makes of it, and what
\* get_scope_auth reads from that line.
InitChallenge ==
    /\ th = [t \in Tasks |-> IdleTask]
    /\ file = [f \in Files |-> FreeFile]
    /\ m_url_info = [u \in Urls |-> Absent(NoInfo)]
    /\ m_scope_token = [s \in Scopes |-> Absent(EmptyStr)]
    /\ m_meta_size = [u \in Urls |-> Absent(0)]
    /\ m_accelerate = EmptyStr
    /\ srv = [valid |-> {}, issued |-> 0]
    /\ crashed = FALSE
    /\ hist \in {[stage |-> "challenge", c |-> c, line |-> EmptyStr, parsed |-> ChallengeFailed] :
                    c \in Challenges}
SendChallenge ==
    /\ hist.stage = "challenge"
    /\ hist' = [hist EXCEPT !.stage = "header", !.line = FormatChallenge(hist.c)]
    /\ UNCHANGED <<th, file, m_url_info, m_scope_token, m_meta_size, m_accelerate, srv, crashed>>
GetScopeAuth ==
    /\ hist.stage = "header"
    /\ hist' = [hist EXCEPT !.stage = "parsed", !.parsed = ParseChallenge(hist.line)]
    /\ UNCHANGED <<th, file, m_url_info, m_scope_token, m_meta_size, m_accelerate, srv, crashed>>
NextChallenge == SendChallenge \/ GetScopeAuth
ChallengeSpec == InitChallenge /\ [][NextChallenge]_vars

\* ------------------------------------------------------- the environment
EnvStep == Running /\ hist.env > 0 /\ hist' = [hist EXCEPT !.env = @ - 1]

\* The registry stops accepting a token it issued.
Revoke(k) ==
    /\ EnvStep
    /\ k \in srv.valid
    /\ srv' = [srv EXCEPT !.valid = @ \ {k}]
    /\ UNCHANGED <<th, file, m_url_info, m_scope_token, m_meta_size, m_accelerate, crashed>>

\* The deadline of a preadv passes during its thread_usleep(1000); preadv
\* looks at the clock only after a failed get_data.
DeadlinePasses(t) ==
    /\ EnvStep
    /\ th[t].pc = "sleep"
    /\ ~th[t].late
    /\ th' = [th EXCEPT ![t].late = TRUE]
    /\ UNCHANGED <<file, m_url_info, m_scope_token, m_meta_size, m_accelerate, srv, crashed>>

\* The TTL of an unreferenced entry elapses and the entry is dropped.
Expirable(e) == e.st = "ready" /\ e.ref = 0
ExpireUrlInfo(u) ==
    /\ EnvStep
    /\ Expirable(m_url_info[u])
    /\ m_url_info' = [m_url_info EXCEPT ![u] = Absent(NoInfo)]
    /\ UNCHANGED <<th, file, m_scope_token, m_meta_size, m_accelerate, srv, crashed>>
ExpireToken(s) ==
    /\ EnvStep
    /\ Expirable(m_scope_token[s])
    /\ m_scope_token' = [m_scope_token EXCEPT ![s] = Absent(EmptyStr)]
    /\ UNCHANGED <<th, file, m_url_info, m_meta_size, m_accelerate, srv, crashed>>
ExpireMeta(u) ==
    /\ EnvStep
    /\ Expirable(m_meta_size[u])
    /\ m_meta_size' = [m_meta_size EXCEPT ![u] = Absent(0)]
    /\ UNCHANGED <<th, file, m_url_info, m_scope_token, m_accelerate, srv, crashed>>

Next ==
    \/ \E t \in Tasks, u \in Urls : Open(t, u)
    \/ \E t \in Tasks, f \in Files : Fstat(t, f)
    \/ \E t \in Tasks, f \in Files, r \in Reads : Preadv(t, f, r[1], r[2])
    \/ \E t \in Tasks, u \in Urls : Stat(t, u)
    \/ \E addr \in AccelAddrs : SetAccelerateAddress(addr)
    \/ \E t \in Tasks : ProbeResp(t)
    \/ \E t \in Tasks : AuthResp(t)
    \/ \E t \in Tasks : ReissueResp(t)
    \/ \E t \in Tasks : RangedResp(t)
    \/ \E t \in Tasks : Return(t)
    \/ \E t \in Tasks : WakeSleep(t)
    \/ \E t \in Tasks : WakeUrl(t)
    \/ \E t \in Tasks : WakeToken(t)
    \/ \E t \in Tasks : WakeMeta(t)
    \/ \E t \in Tasks : DeadlinePasses(t)
    \/ \E k \in Tokens : Revoke(k)
    \/ \E u \in Urls : ExpireUrlInfo(u)
    \/ \E s \in Scopes : ExpireToken(s)
    \/ \E u \in Urls : ExpireMeta(u)

Spec == Init /\ [][Next]_vars

\* =================================================================== claims
Busy(t) == th[t].pc \notin {"idle", "done"}
InResolver(t) == th[t].pc \in {"probe", "wait_tok", "auth", "reissue"}
UrlCtors(u) == {t \in Tasks : th[t].url = u /\ InResolver(t)}
TokenCtors(s) == {t \in Tasks : th[t].scope = s /\ th[t].pc = "auth"}
MetaCtors(u) == {t \in Tasks : th[t].url = u /\ th[t].op = "stat" /\ Busy(t)
                               /\ th[t].pc # "wait_meta"}
Calm == hist.env = hist.env0

\* C1: for each of m_url_info, m_scope_token and m_meta_size and every key, at
\* most one constructor runs at any time, however many tasks ask for the key;
\* the others wait for it, and while one runs the entry is under construction.
C1_SingleFlight ==
    /\ \A u \in Urls :
         /\ Cardinality(UrlCtors(u)) <= 1
         /\ UrlCtors(u) # {} => m_url_info[u].st = "building"
         /\ Cardinality(MetaCtors(u)) <= 1
         /\ MetaCtors(u) # {} => m_meta_size[u].st = "building"
    /\ \A s \in Scopes :
         /\ Cardinality(TokenCtors(s)) <= 1
         /\ TokenCtors(s) # {} => m_scope_token[s].st = "building"

\* C1 witness: one task constructs the token of a scope while a task resolving
\* another URL of that scope waits for it.
C1_Witness ==
    \E t1, t2 \in Tasks :
        /\ th[t1].pc = "auth" /\ th[t2].pc = "wait_tok"
        /\ th[t1].scope = th[t2].scope
        /\ th[t1].url # th[t2].url

\* C2: tasks open the same cold URL of a registry that challenges and then
\* accepts the token it issued, and nothing else happens (no failure, no
\* revocation, no expiry): the token endpoint gets exactly one request and the
\* ranged GETs in flight for the URL were all built from the same UrlInfo.
C2_ColdOpenOneToken ==
    Calm =>
        /\ hist.treq <= 1
        /\ \A t \in Tasks :
             th[t].pc = "ranged" /\ Protected(th[t].url) => hist.treq = 1
        /\ \A t1, t2 \in Tasks :
             th[t1].pc = "ranged" /\ th[t2].pc = "ranged" /\ th[t1].url = th[t2].url
             /\ th[t1].phase = "len" /\ th[t2].phase = "len"
             => th[t1].req = th[t2].req

\* C2 witness: two tasks opening the same protected URL have their ranged GET
\* in flight after one token request.
C2_Witness ==
    /\ Calm
    /\ hist.treq = 1
    /\ \E t1, t2 \in Tasks :
         /\ t1 # t2
         /\ th[t1].op = "open" /\ th[t2].op = "open"
         /\ th[t1].url = th[t2].url /\ Protected(th[t1].url)
         /\ th[t1].pc = "ranged" /\ th[t2].pc = "ranged"

\* C3: every acquire is matched by exactly one release on every path: the
\* reference count of an entry is the number of tasks between an acquire of it
\* and the matching release, so with no operation in progress it is 0.
UrlHolders(u) == {t \in Tasks : th[t].url = u /\ (InResolver(t) \/ th[t].pc = "ranged")}
TokenHolders(s) == {t \in Tasks : th[t].scope = s /\ th[t].pc \in {"auth", "reissue"}}
C3_AcquireReleaseBalanced ==
    /\ \A u \in Urls :
         /\ m_url_info[u].ref = Cardinality(UrlHolders(u))
         /\ m_meta_size[u].ref = Cardinality(MetaCtors(u))
    /\ \A s \in Scopes : m_scope_token[s].ref = Cardinality(TokenHolders(s))
    /\ (\A t \in Tasks : ~Busy(t)) =>
         /\ \A u \in Urls : m_url_info[u].ref = 0 /\ m_meta_size[u].ref = 0
         /\ \A s \in Scopes : m_scope_token[s].ref = 0

\* C3 witness: an operation has failed after the token was acquired (the
\* re-issue was refused) and nothing is in progress.
C3_Witness ==
    /\ \A t \in Tasks : ~Busy(t)
    /\ \E t \in Tasks : th[t].pc = "done" /\ th[t].res = "fail" /\ th[t].scope # ""
    /\ \E u \in Urls : m_url_info[u].st = "ready"

\* C4: when a ranged GET fails and its get_data is the last holder of
\* url_info[url], the entry is gone after the release (or already being
\* rebuilt by the retry), and no ranged GET leaves for a URL whose entry is
\* absent without the resolver running first.
RangedFailedStep(t) ==
    /\ th[t].pc = "ranged"
    /\ \/ th'[t].pc = "sleep"
       \/ th'[t].pc = "done" /\ th'[t].res = "fail"
       \/ th'[t].attempts = th[t].attempts + 1
C4_PoisonedNotReused ==
    [][\A t \in Tasks :
         /\ RangedFailedStep(t) /\ m_url_info[th[t].url].ref = 1
            => m_url_info'[th[t].url].st # "ready"
         /\ th'[t].pc = "ranged" /\ th[t].pc # "ranged"
            => m_url_info[th'[t].url].st # "absent"]_vars

\* C4 witness: a preadv sleeps before its retry and the entry it poisoned is
\* gone.
C4_Witness ==
    \E t \in Tasks : th[t].pc = "sleep" /\ m_url_info[th[t].url].st = "absent"

\* C5: a ranged GET built from a Redirect UrlInfo goes to the stored location
\* (behind the accelerator prefix, if one is set) and has no Authorization
\* header; no request to another host than the registry carries one.
C5_RedirectNoAuth ==
    \A t \in Tasks :
        th[t].pc = "ranged" =>
            /\ m_url_info[th[t].url].val.mode = "Redirect" =>
                 /\ th[t].req.auth = EmptyStr
                 /\ th[t].req.target \in {Location(th[t].url),
                                          <<"http://p2p", "/">> \o Location(th[t].url)}
            /\ ~ToOrigin(th[t].url, th[t].req) => th[t].req.auth = EmptyStr

\* C5 witness: a redirect-mode ranged GET is in flight after a re-resolution,
\* with a token of the scope in the cache.
C5_Witness ==
    \E t \in Tasks :
        /\ th[t].pc = "ranged"
        /\ th[t].attempts > 1
        /\ m_url_info[th[t].url].val.mode = "Redirect"
        /\ m_scope_token[ScopeOf(th[t].url)].st = "ready"

\* C6: a ranged GET built from a Self UrlInfo goes to the original URL; with a
\* non-empty bearer made from token T its Authorization value is exactly
\* "Bearer " followed by T, and with an empty bearer there is no header.
C6_SelfHeaderIsBearerToken ==
    \A t \in Tasks :
        th[t].pc = "ranged" /\ m_url_info[th[t].url].val.mode = "Self" =>
            /\ ToOrigin(th[t].url, th[t].req)
            /\ IF m_url_info[th[t].url].val.info = EmptyStr
               THEN th[t].req.auth = EmptyStr
               ELSE \E k \in 1..srv.issued : th[t].req.auth = <<"Bearer ", ToString(k)>>

\* C7: a preadv whose first ranged GET was refused because the cached token
\* had expired (StaleBearer), and during which nothing else went wrong since
\* (no failure, no deadline, no revocation), returns success.
C7_ExpiryRecovered ==
    \A t \in Tasks :
        th[t].pc = "done" /\ th[t].scen > 0 /\ hist.env = th[t].scen - 1
        => th[t].res = "ok"

\* C8: once open has returned the file, its size is known: no fstat sends
\* a size query and no preadv starts with one.
C8_NoSecondSizeQuery ==
    \A t \in Tasks :
        /\ th[t].op = "fstat" => th[t].pc = "done"
        /\ th[t].op = "preadv" => th[t].phase # "len"

\* C9: the count preadv passes to get_data is at most max(0, filesize - offset),
\* and a preadv at or past the end of the file returns 0.
C9_ClampedCount ==
    \A t \in Tasks :
        th[t].op = "preadv" /\ th[t].phase = "read" =>
            LET filesize == file[th[t].f].size
            IN  /\ th[t].count <= (IF th[t].off < filesize THEN filesize - th[t].off ELSE 0)
                /\ th[t].off >= filesize /\ th[t].pc = "done"
                   => th[t].res = "ok" /\ th[t].val = 0

\* C10: get_length and the read loop of preadv each make at most 4 get_data
\* calls, the retries of either drawing on one budget of 3; a retry of the
\* read loop starts only after its sleep; with the budget used up the
\* operation has failed.
C10_BoundedAttempts ==
    /\ [](\A t \in Tasks :
            th[t].phase \in {"len", "read"} =>
                /\ th[t].attempts >= 1 /\ th[t].retry >= 0
                /\ th[t].attempts + th[t].retry =
                       (IF th[t].pc = "sleep" THEN kRetry ELSE kRetry + 1))
    /\ [][\A t \in Tasks :
            th[t].phase = "read" /\ th'[t].phase = "read"
            /\ th'[t].attempts > th[t].attempts
            => th[t].pc = "sleep"]_vars

\* C10 witness: a preadv has failed with ENOENT after the fourth get_data of
\* its read loop.
C10_Witness ==
    \E t \in Tasks :
        /\ th[t].op = "preadv" /\ th[t].phase = "read"
        /\ th[t].pc = "done" /\ th[t].res = "fail" /\ th[t].err = "ENOENT"
        /\ th[t].attempts = kRetry + 1 /\ th[t].retry = 0

\* C11: a failed get_length (fstat) reports ETIMEDOUT when the deadline had
\* passed as the failed attempt was examined; otherwise it has used up its
\* retries and reports EPERM when the last ranged GET answered 401/403 and
\* ENOENT for every other failure.
C11_LengthErrno ==
    \A t \in Tasks :
        th[t].pc = "done" /\ th[t].phase = "len" /\ th[t].res = "fail" =>
            IF th[t].late THEN th[t].err = "ETIMEDOUT"
            ELSE /\ th[t].attempts = kRetry + 1
                 /\ th[t].err = (IF th[t].status \in {ST_UNAUTH, ST_FORBIDDEN}
                                 THEN "EPERM" ELSE "ENOENT")

\* C11 witness: an fstat has failed with EPERM after four ranged GETs that
\* were answered 401.
C11_Witness ==
    \E t \in Tasks :
        /\ th[t].op = "fstat" /\ th[t].pc = "done" /\ th[t].res = "fail"
        /\ ~th[t].late /\ th[t].status = ST_UNAUTH /\ th[t].err = "EPERM"

\* C12: setAccelerateAddress changes the accelerator address and none of the
\* three caches; no cached UrlInfo holds the accelerator prefix; every ranged
\* GET sent targets "{addr}/{effective url}" for the address set at that time,
\* and the effective URL itself (redirect location or original URL) when the
\* address is empty.
EffectiveUrl(u, info) == IF info.mode = "Redirect" THEN info.info ELSE <<u>>
C12_AccelerateFrame ==
    /\ [](\A u \in Urls : \A a \in AccelAddrs :
            a # EmptyStr /\ Len(m_url_info[u].val.info) >= Len(a) =>
                SubSeq(m_url_info[u].val.info, 1, Len(a)) # a)
    /\ [][/\ m_accelerate' # m_accelerate
             => UNCHANGED <<m_url_info, m_scope_token, m_meta_size, th, file>>
          /\ \A t \in Tasks :
               th'[t].pc = "ranged" /\ th'[t] # th[t] =>
                   th'[t].req.target =
                       (IF m_accelerate' = EmptyStr THEN <<>> ELSE m_accelerate' \o <<"/">>)
                       \o EffectiveUrl(th'[t].url, m_url_info'[th'[t].url].val)]_vars

\* C12 witness: with the address set after the URL was resolved to a
\* redirect, a later ranged GET goes to the address followed by the location.
C12_Witness ==
    \E t \in Tasks :
        /\ th[t].pc = "ranged"
        /\ th[t].op \in {"fstat", "preadv"}
        /\ m_url_info[th[t].url].val.mode = "Redirect"
        /\ m_accelerate # EmptyStr
        /\ th[t].req.target = m_accelerate \o <<"/">> \o Location(th[t].url)

\* C13: for every well-formed challenge {realm, service, scope}, scopes with a
\* comma included, get_scope_auth reads from the formatted header the scope
\* itself and the authurl "{realm}?service={service}&scope={scope}".
C13_ChallengeRoundTrip ==
    hist.stage = "parsed" =>
        /\ hist.parsed.ret = 0
        /\ hist.parsed.scope = hist.c.scope
        /\ hist.parsed.authurl = hist.c.realm \o <<"?service=">> \o hist.c.service
                                 \o <<"&scope=">> \o hist.c.scope

\* C14: get_data releases url_info[url] clean when its ranged GET answered
\* 200 or 206 and poisoned for every other outcome; when the resolver
\* returned nothing, no ranged GET is sent and the attempt ends with no
\* status and no entry.
ResolverFailedStep(t) ==
    /\ InResolver(t)
    /\ \/ th'[t].pc = "sleep"
       \/ th'[t].pc = "done" /\ th'[t].res = "fail"
       \/ th'[t].attempts = th[t].attempts + 1
C14_ReleaseCleanIffOk ==
    [][\A t \in Tasks :
         LET e == m_url_info[th[t].url]
             e2 == m_url_info'[th[t].url]
             clean == Released(e, FALSE, NoInfo)
             dropped == Released(e, TRUE, NoInfo)
         IN  /\ th[t].pc = "ranged" /\ th'[t] # th[t] /\ ~RangedFailedStep(t)
                => \/ e2 = clean
                   \/ CacheHit(clean) /\ e2 = Acquired(clean)
                   \/ CacheMiss(clean) /\ e2 = Building(NoInfo)
             /\ RangedFailedStep(t)
                => \/ e2 = dropped
                   \/ CacheMiss(dropped) /\ e2 = Building(NoInfo)
             /\ ResolverFailedStep(t)
                => /\ th'[t].pc # "ranged"
                   /\ th'[t].status = ST_NONE
                   /\ e2 \in {Absent(NoInfo), Building(NoInfo)}]_vars

\* C14 witness: an operation has returned after a 200/206 and the entry it
\* released is cached, clean and unreferenced.
C14_Witness ==
    \E t \in Tasks :
        /\ th[t].pc = "done" /\ th[t].res = "ok" /\ StatusOk(th[t].status)
        /\ CacheHit(m_url_info[th[t].url]) /\ m_url_info[th[t].url].ref = 0

\* C15: for a blob whose probe is answered 2xx without a challenge the
\* resolver uses no token: it does not evaluate the absent token (the process
\* does not die there) and puts no Authorization header on a request of its
\* own; the ranged GETs that follow carry none either.
C15_PublicBlobNoToken ==
    /\ ~crashed
    /\ \A t \in Tasks :
         th[t].scope = "" /\ th[t].pc \in {"reissue", "ranged"} /\ ~Protected(th[t].url)
         => th[t].req.auth = EmptyStr

\* C16: when the authenticated re-issue is answered 200 or 206 the resolver
\* returns Self with the token and releases the scope token clean; answered
\* 3xx it returns Redirect with the Location and releases the token clean;
\* for every other status it releases the token poisoned and fails.
C16_ReissueOutcome ==
    [][\A t \in Tasks :
         th[t].pc = "reissue" /\ th[t].scope # "" /\ th'[t] # th[t] =>
             LET k == m_scope_token[th[t].scope]
                 k2 == m_scope_token'[th[t].scope]
                 info2 == m_url_info'[th[t].url].val
                 status == th'[t].rstatus
             IN  IF status \in {ST_OK, ST_PARTIAL}
                 THEN /\ th'[t].pc = "ranged"
                      /\ info2.mode = "Self" /\ info2.info # EmptyStr
                      /\ k2 = Released(k, FALSE, EmptyStr)
                 ELSE IF IsRedirect(status)
                 THEN /\ th'[t].pc = "ranged"
                      /\ info2 = RedirectInfo(Location(th[t].url))
                      /\ k2 = Released(k, FALSE, EmptyStr)
                 ELSE /\ th'[t].pc # "ranged"
                      /\ k2 = Released(k, TRUE, EmptyStr)]_vars

\* C17: when a ranged GET that carried a cached bearer (Self mode) is
\* answered 401 or 403, the scope token of the URL is no longer usable from
\* the cache once get_data has returned (it is poisoned or removed).
C17_RangedAuthFailureDropsToken ==
    [][\A t \in Tasks :
         /\ th[t].pc = "ranged" /\ th'[t] # th[t]
         /\ m_url_info[th[t].url].val.mode = "Self"
         /\ m_url_info[th[t].url].val.info # EmptyStr
         /\ th'[t].status \in {ST_UNAUTH, ST_FORBIDDEN}
         => ~CacheHit(m_scope_token'[ScopeOf(th[t].url)])]_vars

\* C18: an open or fstat all of whose attempts failed in the token
\* acquisition (authfails counts them), with the deadline not passed, has
\* code 401 from the resolver and fails with EPERM.
C18_TokenFailureIsEperm ==
    \A t \in Tasks :
        /\ th[t].pc = "done" /\ th[t].res = "fail" /\ th[t].op \in {"open", "fstat"}
        /\ ~th[t].late /\ th[t].authfails = th[t].attempts
        => th[t].code = ST_UNAUTH /\ th[t].err = "EPERM"

\* C19: once the deadline of an fstat or preadv has passed, the call starts
\* no further get_data; a failed attempt examined after the deadline ends
\* the call with ETIMEDOUT whatever its status and the retries left.
C19_NoAttemptAfterDeadline ==
    [][\A t \in Tasks :
         /\ th[t].late /\ th[t].pc # "done"
            => th'[t].attempts = th[t].attempts
         /\ (RangedFailedStep(t) \/ ResolverFailedStep(t)) /\ th'[t].late
            => th'[t].pc = "done" /\ th'[t].res = "fail" /\ th'[t].err = "ETIMEDOUT"]_vars

\* C20: a read cancelled by its deadline poisons no cache.  When the deadline
\* passes during the ranged GET and no status came back, url_info[url] is
\* released clean and the token cache is left alone; when it passes during
\* the resolver's re-issue, the token of the scope is released clean.
C20_CancelledReadKeepsCaches ==
    [][\A t \in Tasks :
         LET u == th[t].url
             sc == ScopeOf(u)
         IN  /\ th[t].pc = "ranged" /\ ~th[t].late /\ th'[t].late /\ th'[t].status = ST_NONE
                => /\ m_url_info'[u] = Released(m_url_info[u], FALSE, NoInfo)
                   /\ m_scope_token' = m_scope_token
             /\ th[t].pc = "reissue" /\ ~th[t].late /\ th'[t].late /\ th'[t].rstatus = ST_NONE
                /\ m_scope_token[sc].ref > 0
                => m_scope_token'[sc] = Released(m_scope_token[sc], FALSE, EmptyStr)]_vars

====
